---- MODULE Spec2Model ----
(***************************************************************************)
(* Model of gbde_totei.py: the GutenbergHtmlToTei converter.  The parsed   *)
(* HTML pages are visited child by child; every visit calls at most one    *)
(* builder, which appends elements to the TEI tree and updates the         *)
(* converter's references (current_act, current_scene, current_speaker,    *)
(* last_elem).  An uncaught Python exception ends the run (fault).         *)
(*                                                                         *)
(* Strings are sequences of one-character strings; Code gives the code     *)
(* point of each character of the bounded alphabet.                        *)
(***************************************************************************)
EXTENDS Integers, Sequences, FiniteSets, TLC

VARIABLES
    elems,            \* the lxml tree: elems[i] is element i, elems[1] is tei_body
    current_act,      \* self.current_act     (0 is None)
    current_scene,    \* self.current_scene   (0 is None)
    current_speaker,  \* self.current_speaker (0 is None)
    last_elem,        \* self.last_elem       (0 is None)
    cast,             \* children of listPerson: <<[id, persName]>>
    fault,            \* "none", or the exception that ended the run
    where,            \* position of the walk: "main", "page", "para", "done"
    lastEv,           \* the node visited by the latest step
    scen              \* length of the scenario prefix the run has followed, -1 when off it

conv == <<elems, current_act, current_scene, current_speaker, last_elem, cast, fault>>
vars == <<elems, current_act, current_scene, current_speaker, last_elem, cast, fault,
          where, lastEv, scen>>

None == 0
Body == 1

----------------------------------------------------------------------------
(* Bounds *)

MaxNodes == 5
MaxStageLen == 3
MaxNameLen == 3

----------------------------------------------------------------------------
(* Python str operations *)

Code ==
    ("\n" :> 10) @@ (" " :> 32) @@ ("#" :> 35) @@ ("," :> 44) @@ ("." :> 46) @@
    ("1" :> 49) @@ ("2" :> 50) @@ (":" :> 58) @@
    ("A" :> 65) @@ ("H" :> 72) @@ ("I" :> 73) @@ ("M" :> 77) @@ ("R" :> 82) @@
    ("S" :> 83) @@ ("W" :> 87) @@ ("_" :> 95) @@
    ("a" :> 97) @@ ("b" :> 98) @@ ("e" :> 101) @@ ("h" :> 104) @@ ("i" :> 105) @@
    ("k" :> 107) @@ ("l" :> 108) @@ ("m" :> 109) @@ ("n" :> 110) @@ ("o" :> 111) @@
    ("r" :> 114) @@ ("s" :> 115) @@ ("t" :> 116) @@ ("w" :> 119) @@ ("z" :> 122)

Alphabet == DOMAIN Code

Whitespace == {" ", "\n"}

LowerChar(c) ==
    IF Code[c] >= 65 /\ Code[c] <= 90
    THEN CHOOSE d \in Alphabet : Code[d] = Code[c] + 32
    ELSE c

lower(s) == [i \in 1..Len(s) |-> LowerChar(s[i])]

RECURSIVE lstrip(_, _)
lstrip(s, chars) ==
    IF s # <<>> /\ Head(s) \in chars THEN lstrip(Tail(s), chars) ELSE s

RECURSIVE rstrip(_, _)
rstrip(s, chars) ==
    IF s # <<>> /\ s[Len(s)] \in chars THEN rstrip(SubSeq(s, 1, Len(s) - 1), chars) ELSE s

strip(s, chars) == rstrip(lstrip(s, chars), chars)

RECURSIVE replace(_, _, _)
replace(s, old, new) ==
    IF s = <<>> THEN <<>>
    ELSE (IF Head(s) = old THEN new ELSE <<Head(s)>>) \o replace(Tail(s), old, new)

startswith(s, prefix) ==
    Len(s) >= Len(prefix) /\ SubSeq(s, 1, Len(prefix)) = prefix

\* the slice left out
From2_whole(s) == s

\* s[2:]
From2(s) == SubSeq(s, 3, Len(s))

\* needle in haystack
Contains(needle, haystack) ==
    \E i \in 0..(Len(haystack) - Len(needle)) :
        SubSeq(haystack, i + 1, i + Len(needle)) = needle

RECURSIVE StrLess(_, _)
StrLess(a, b) ==
    IF b = <<>> THEN FALSE
    ELSE IF a = <<>> THEN TRUE
    ELSE IF Code[Head(a)] # Code[Head(b)] THEN Code[Head(a)] < Code[Head(b)]
    ELSE StrLess(Tail(a), Tail(b))

RECURSIVE sorted(_)
sorted(S) ==
    IF S = {} THEN <<>>
    ELSE LET m == CHOOSE x \in S : \A y \in S \ {x} : StrLess(x, y)
         IN  <<m>> \o sorted(S \ {m})

----------------------------------------------------------------------------
(* lxml tree *)

Element(tag, type, who) ==
    [tag |-> tag, type |-> type, who |-> who, text |-> <<>>, kids |-> <<>>]

\* SubElement that inserts the new element as the first child
SubElement_first(t, parent, el) ==
    [Append(t, el) EXCEPT ![parent].kids = <<Len(t) + 1>> \o @]

\* lxml.etree.SubElement(parent, ...): the new element becomes the last child
SubElement(t, parent, el) ==
    [Append(t, el) EXCEPT ![parent].kids = Append(@, Len(t) + 1)]

SetText(t, e, s) == [t EXCEPT ![e].text = s]

----------------------------------------------------------------------------
(* Inputs: the texts the visited HTML nodes carry *)

act_trigger == <<"A", "k", "t">>
scene_trigger == <<"S", "z", "e", "n", "e">>

Ev(kind, cls, text, lines) == [kind |-> kind, cls |-> cls, text |-> text, lines |-> lines]

TextNode(s) == [isTag |-> FALSE, text |-> s]
TagNode(s) == [isTag |-> TRUE, text |-> s]

Hallo == <<"H", "a", "l", "l", "o">>

Headings ==
    { <<"1", ".", " ", "A", "k", "t">>,
      <<"2", ".", " ", "S", "z", "e", "n", "e">>,
      <<"S", "z", "e", "n", "e", " ", "A", "k", "t">>,
      <<"a", "k", "t">> }

SpeakerTexts ==
    { <<"M", "A", "R", "I", "A", ".">>,
      <<"H", "a", "n", "s">>,
      <<"h", "a", "n", "s", ".">>,
      <<".", "a">> }

StageTexts == { <<"a", "\n">> }

RunTexts ==
    { <<".", " ">> \o Hallo,
      Hallo,
      <<".", " ", "a">>,
      <<" ", "\n">> }

VersParagraphs ==
    { << TextNode(Hallo), TextNode(<<",", " ", "W", "e", "l", "t">>) >>,
      << TagNode(<<"b">>), TextNode(<<".", " ", "a", "\n">>) >> }

ParagraphClasses == {"vers", "stage", "center"}

SpanClasses == {"stage", "speaker", "regie", "wide"}

\* The end-to-end scenario of two pages
Script ==
    << Ev("page", "", <<>>, <<>>),
       Ev("heading", "", <<"1", ".", " ", "A", "k", "t">>, <<>>),
       Ev("p_begin", "", <<>>, <<>>),
       Ev("span", "speaker", <<"M", "A", "R", "I", "A", ".">>, <<>>),
       Ev("text", "", <<".", " ">> \o Hallo, <<>>),
       Ev("p_end", "", <<>>, <<>>),
       Ev("page_end", "", <<>>, <<>>),
       Ev("page", "", <<>>, <<>>),
       Ev("heading", "", <<"2", ".", " ", "S", "z", "e", "n", "e">>, <<>>),
       Ev("p", "vers", <<>>,
          << TextNode(Hallo), TextNode(<<",", " ", "W", "e", "l", "t">>) >>) >>

OnScript(ev) == scen >= 0 /\ scen < Len(Script) /\ Script[scen + 1] = ev

\* every step records the node it visits
Visit(ev) ==
    /\ lastEv' = ev
    /\ scen' = IF OnScript(ev) THEN scen + 1 ELSE -1

\* runs are explored up to MaxNodes elements under body and MaxStageLen characters
\* in a stage direction, and along the scenario
Bounded(ev) ==
    \/ OnScript(ev)
    \/ /\ Len(elems') - 1 <= MaxNodes
       /\ \A i \in 1..Len(elems') : elems'[i].tag = "stage" => Len(elems'[i].text) <= MaxStageLen

----------------------------------------------------------------------------
(* Builders *)

\* a failure that leaves a new element behind
Raise_after_insert(exc) ==
    /\ fault' = exc
    /\ elems' = Append(elems, Element("stage", "", <<>>))
    /\ last_elem' = Len(elems) + 1
    /\ UNCHANGED <<current_act, current_scene, current_speaker, cast>>

Raise(exc) ==
    /\ fault' = exc
    /\ UNCHANGED <<elems, current_act, current_scene, current_speaker, last_elem, cast>>

\* add_act that opens the act inside the open scene
add_act_in_scene ==
    /\ elems' = SubElement(elems, IF current_scene = None THEN Body ELSE current_scene,
                           Element("div", "act", <<>>))
    /\ current_act' = Len(elems) + 1
    /\ current_scene' = None
    /\ last_elem' = Len(elems) + 1
    /\ UNCHANGED <<current_speaker, cast, fault>>

\* add_act without the reset of current_scene
add_act_keep_scene ==
    /\ elems' = SubElement(elems, Body, Element("div", "act", <<>>))
    /\ current_act' = Len(elems) + 1
    /\ last_elem' = Len(elems) + 1
    /\ UNCHANGED <<current_scene, current_speaker, cast, fault>>

add_act ==
    /\ elems' = SubElement(elems, Body, Element("div", "act", <<>>))
    /\ current_act' = Len(elems) + 1
    /\ current_scene' = None
    /\ last_elem' = Len(elems) + 1
    /\ UNCHANGED <<current_speaker, cast, fault>>

\* add_scene without the update of last_elem
add_scene_keep_last ==
    /\ elems' = SubElement(elems, IF current_act = None THEN Body ELSE current_act,
                           Element("div", "scene", <<>>))
    /\ current_scene' = Len(elems) + 1
    /\ UNCHANGED <<current_act, current_speaker, last_elem, cast, fault>>

\* add_scene that never looks for the open act
add_scene_at_body ==
    /\ elems' = SubElement(elems, Body, Element("div", "scene", <<>>))
    /\ current_scene' = Len(elems) + 1
    /\ last_elem' = Len(elems) + 1
    /\ UNCHANGED <<current_act, current_speaker, cast, fault>>

add_scene ==
    /\ elems' = SubElement(elems, IF current_act = None THEN Body ELSE current_act,
                           Element("div", "scene", <<>>))
    /\ current_scene' = Len(elems) + 1
    /\ last_elem' = Len(elems) + 1
    /\ UNCHANGED <<current_act, current_speaker, cast, fault>>

speaker_id(speaker_surface) ==
    <<"#">> \o replace(strip(lower(speaker_surface), {"."}), " ", <<"_">>)

add_speaker(speaker_surface) ==
    LET parent == IF current_scene = None THEN current_act ELSE current_scene
        sp == Len(elems) + 1
        t1 == SubElement(elems, parent, Element("sp", "", speaker_id(speaker_surface)))
        t2 == SubElement(t1, sp, Element("speaker", "", <<>>))
    IN  IF parent = None
        THEN Raise("TypeError")
        ELSE /\ elems' = SetText(t2, sp + 1, strip(speaker_surface, {"."}))
             /\ current_speaker' = sp
             /\ last_elem' = sp + 1
             /\ UNCHANGED <<current_act, current_scene, cast, fault>>

\* add_speakerText that corrects a stage direction only while a speech is open
add_speakerText_scoped(speaker_text) ==
    LET pre == \/ startswith(speaker_text, <<",", " ">>)
               \/ startswith(speaker_text, <<".", " ">>)
               \/ startswith(speaker_text, <<":", " ">>)
        t1 == IF pre /\ current_speaker # None /\ last_elem # None
                 /\ elems[last_elem].tag = "stage"
              THEN SetText(elems, last_elem, Append(elems[last_elem].text, speaker_text[1]))
              ELSE elems
        txt == replace(IF pre THEN From2(speaker_text) ELSE speaker_text, "\n", <<>>)
        stripped == strip(txt, Whitespace)
        p_elem == Len(elems) + 1
    IN  IF pre /\ current_speaker # None /\ last_elem = None
        THEN Raise("AttributeError")
        ELSE IF current_speaker # None /\ Len(stripped) > 1
        THEN /\ elems' = SetText(SubElement(t1, current_speaker, Element("p", "", <<>>)),
                                 p_elem, stripped)
             /\ last_elem' = p_elem
             /\ UNCHANGED <<current_act, current_scene, current_speaker, cast, fault>>
        ELSE IF current_speaker # None /\ Len(stripped) = 1 /\ t1[last_elem].tag = "stage"
        THEN /\ elems' = SetText(t1, last_elem, t1[last_elem].text \o stripped)
             /\ UNCHANGED <<current_act, current_scene, current_speaker, last_elem, cast, fault>>
        ELSE /\ elems' = t1
             /\ UNCHANGED <<current_act, current_scene, current_speaker, last_elem, cast, fault>>

add_speakerText(speaker_text) ==
    LET pre == \/ startswith(speaker_text, <<",", " ">>)
               \/ startswith(speaker_text, <<".", " ">>)
               \/ startswith(speaker_text, <<":", " ">>)
        t1 == IF pre /\ last_elem # None /\ elems[last_elem].tag = "stage"
              THEN SetText(elems, last_elem, Append(elems[last_elem].text, speaker_text[1]))
              ELSE elems
        txt == replace(IF pre THEN From2(speaker_text) ELSE speaker_text, "\n", <<>>)
        stripped == strip(txt, Whitespace)
        p_elem == Len(elems) + 1
    IN  IF pre /\ last_elem = None
        THEN Raise("AttributeError")
        ELSE IF current_speaker # None /\ Len(stripped) > 1
        THEN /\ elems' = SetText(SubElement(t1, current_speaker, Element("p", "", <<>>)),
                                 p_elem, stripped)
             /\ last_elem' = p_elem
             /\ UNCHANGED <<current_act, current_scene, current_speaker, cast, fault>>
        ELSE IF current_speaker # None /\ Len(stripped) = 1 /\ last_elem = None
        THEN /\ elems' = t1
             /\ fault' = "AttributeError"
             /\ UNCHANGED <<current_act, current_scene, current_speaker, last_elem, cast>>
        ELSE IF current_speaker # None /\ Len(stripped) = 1 /\ t1[last_elem].tag = "stage"
        THEN /\ elems' = SetText(t1, last_elem, t1[last_elem].text \o stripped)
             /\ UNCHANGED <<current_act, current_scene, current_speaker, last_elem, cast, fault>>
        ELSE /\ elems' = t1
             /\ UNCHANGED <<current_act, current_scene, current_speaker, last_elem, cast, fault>>

add_stage(stage, speaker) ==
    LET parent == IF speaker THEN current_speaker
                  ELSE IF current_scene = None THEN current_act ELSE current_scene
        stage_elem == Len(elems) + 1
    IN  IF parent = None
        THEN Raise("TypeError")
        ELSE /\ elems' = SetText(SubElement(elems, parent, Element("stage", "", <<>>)),
                                 stage_elem, replace(stage, "\n", <<>>))
             /\ last_elem' = stage_elem
             /\ UNCHANGED <<current_act, current_scene, current_speaker, cast, fault>>

RECURSIVE AddLineElems(_, _, _)
AddLineElems(t, lg_element, lines) ==
    IF lines = <<>> THEN t
    ELSE LET line == IF \/ startswith(Head(lines).text, <<",", " ">>)
                        \/ startswith(Head(lines).text, <<".", " ">>)
                     THEN From2(Head(lines).text)
                     ELSE Head(lines).text
             t1 == SubElement(t, lg_element, Element("l", "", <<>>))
         IN  AddLineElems(SetText(t1, Len(t1), strip(replace(line, "\n", <<>>), Whitespace)),
                          lg_element, Tail(lines))

IsTextNode(elem) == ~elem.isTag

\* add_lines that returns silently when no speech is open
add_lines_silent(p_elem) ==
    LET lg_element == Len(elems) + 1
        lines == SelectSeq(p_elem, IsTextNode)
    IN  IF current_speaker = None
        THEN UNCHANGED conv
        ELSE /\ elems' = AddLineElems(SubElement(elems, current_speaker, Element("lg", "", <<>>)),
                                      lg_element, lines)
             /\ last_elem' = lg_element
             /\ UNCHANGED <<current_act, current_scene, current_speaker, cast, fault>>

\* add_lines without the update of last_elem
add_lines_keep_last(p_elem) ==
    LET lg_element == Len(elems) + 1
        lines == SelectSeq(p_elem, IsTextNode)
    IN  IF current_speaker = None
        THEN Raise("TypeError")
        ELSE /\ elems' = AddLineElems(SubElement(elems, current_speaker, Element("lg", "", <<>>)),
                                      lg_element, lines)
             /\ UNCHANGED <<current_act, current_scene, current_speaker, last_elem, cast, fault>>

add_lines(p_elem) ==
    LET lg_element == Len(elems) + 1
        lines == SelectSeq(p_elem, IsTextNode)
    IN  IF current_speaker = None
        THEN Raise("TypeError")
        ELSE /\ elems' = AddLineElems(SubElement(elems, current_speaker, Element("lg", "", <<>>)),
                                      lg_element, lines)
             /\ last_elem' = lg_element
             /\ UNCHANGED <<current_act, current_scene, current_speaker, cast, fault>>

\* the id without lower()
person_id_keep_case(speaker) == strip(replace(speaker, " ", <<"_">>), {"."})

person_id(speaker) == strip(replace(lower(speaker), " ", <<"_">>), {"."})

\* add_listPerson without set() and sorted(): one person per speaker element
add_listPerson_document_order ==
    LET speakers == SelectSeq([i \in 1..Len(elems) |-> i], LAMBDA i : elems[i].tag = "speaker")
    IN  /\ cast' = cast \o [i \in 1..Len(speakers) |->
                              [id |-> person_id(elems[speakers[i]].text),
                               persName |-> elems[speakers[i]].text]]
        /\ UNCHANGED <<elems, current_act, current_scene, current_speaker, last_elem, fault>>

add_listPerson ==
    LET speaker_set == sorted({elems[i].text : i \in {j \in 2..Len(elems) : elems[j].tag = "speaker"}})
    IN  /\ cast' = cast \o [i \in 1..Len(speaker_set) |->
                              [id |-> person_id(speaker_set[i]), persName |-> speaker_set[i]]]
        /\ UNCHANGED <<elems, current_act, current_scene, current_speaker, last_elem, fault>>

----------------------------------------------------------------------------
(* The walk: __main__, parse_page, parse_paragraph *)

Init ==
    /\ elems = << Element("body", "", <<>>) >>
    /\ current_act = None
    /\ current_scene = None
    /\ current_speaker = None
    /\ last_elem = None
    /\ cast = <<>>
    /\ fault = "none"
    /\ where = "main"
    /\ lastEv = Ev("init", "", <<>>, <<>>)
    /\ scen = 0

Running(w) == fault = "none" /\ where = w

\* __main__ fetches the next of its n_pages pages (n_pages is any number);
\* parse_page finds the content container
StartPage ==
    LET ev == Ev("page", "", <<>>, <<>>)
    IN  /\ Running("main")
        /\ where' = "page"
        /\ Visit(ev)
        /\ UNCHANGED conv

\* soup.find returns None: div_body.children raises
MissingContainer ==
    /\ Running("main")
    /\ Visit(Ev("page_empty", "", <<>>, <<>>))
    /\ Raise("AttributeError")
    /\ UNCHANGED where

EndPage ==
    /\ Running("page")
    /\ where' = "main"
    /\ Visit(Ev("page_end", "", <<>>, <<>>))
    /\ UNCHANGED conv

\* the heading branch with the scene trigger tried first
parse_heading_scene_first(heading) ==
    IF Contains(scene_trigger, heading) THEN add_scene
    ELSE IF Contains(act_trigger, heading) THEN add_act
    ELSE UNCHANGED conv

\* the heading branch of parse_page
parse_heading(heading) ==
    IF Contains(act_trigger, heading) THEN add_act
    ELSE IF Contains(scene_trigger, heading) THEN add_scene
    ELSE UNCHANGED conv

Heading ==
    \E heading \in Headings :
        /\ Running("page")
        /\ parse_heading(heading)
        /\ Visit(Ev("heading", "", heading, <<>>))
        /\ Bounded(Ev("heading", "", heading, <<>>))
        /\ UNCHANGED where

\* a child of the container that is neither a paragraph nor a heading
OtherNode ==
    /\ Running("page")
    /\ Visit(Ev("other", "", <<>>, <<>>))
    /\ UNCHANGED <<conv, where>>

\* parse_paragraph that takes every class other than "vers" for a stage direction
parse_paragraph_default_stage(p_type, text, children) ==
    IF p_type = "vers" THEN add_lines(children)
    ELSE add_stage(text, FALSE)

\* parse_paragraph of a paragraph that has a class attribute
parse_paragraph(p_type, text, children) ==
    IF p_type = "vers" THEN add_lines(children)
    ELSE IF p_type = "stage" THEN add_stage(text, FALSE)
    ELSE UNCHANGED conv

ClassParagraph ==
    \E p_type \in ParagraphClasses :
      \E text \in (IF p_type = "vers" THEN {<<>>} ELSE StageTexts) :
        \E children \in (IF p_type = "vers" THEN VersParagraphs ELSE {<<>>}) :
            /\ Running("page")
            /\ parse_paragraph(p_type, text, children)
            /\ Visit(Ev("p", p_type, text, children))
            /\ Bounded(Ev("p", p_type, text, children))
            /\ UNCHANGED where

\* parse_paragraph of a paragraph without class attribute: its children are visited in turn
BeginParagraph ==
    /\ Running("page")
    /\ where' = "para"
    /\ Visit(Ev("p_begin", "", <<>>, <<>>))
    /\ UNCHANGED conv

EndParagraph ==
    /\ Running("para")
    /\ where' = "page"
    /\ Visit(Ev("p_end", "", <<>>, <<>>))
    /\ UNCHANGED conv

\* a span child with a class attribute
parse_span(elem_type, text) ==
    IF elem_type = "stage" THEN add_stage(text, FALSE)
    ELSE IF elem_type = "speaker" THEN add_speaker(text)
    ELSE IF elem_type = "regie" THEN add_stage(text, TRUE)
    ELSE UNCHANGED conv

SpanChild ==
    \E elem_type \in SpanClasses :
      \E text \in (IF elem_type = "speaker" THEN SpeakerTexts ELSE StageTexts) :
        /\ Running("para")
        /\ parse_span(elem_type, text)
        /\ Visit(Ev("span", elem_type, text, <<>>))
        /\ Bounded(Ev("span", elem_type, text, <<>>))
        /\ UNCHANGED where

\* a span child without class attribute: elem.get("class") is None, None[0] raises
BareSpanChild ==
    /\ Running("para")
    /\ Raise("TypeError")
    /\ Visit(Ev("span", "None", <<>>, <<>>))
    /\ UNCHANGED where

\* a tag child that is not a span
TagChild ==
    /\ Running("para")
    /\ Visit(Ev("tag", "", <<>>, <<>>))
    /\ UNCHANGED <<conv, where>>

\* a NavigableString child
TextChild ==
    \E speaker_text \in RunTexts :
        /\ Running("para")
        /\ add_speakerText(speaker_text)
        /\ Visit(Ev("text", "", speaker_text, <<>>))
        /\ Bounded(Ev("text", "", speaker_text, <<>>))
        /\ UNCHANGED where

\* after the last page __main__ calls add_listPerson
Finalize ==
    /\ Running("main")
    /\ add_listPerson
    /\ where' = "done"
    /\ Visit(Ev("finalize", "", <<>>, <<>>))

Next ==
    \/ StartPage
    \/ MissingContainer
    \/ EndPage
    \/ Heading
    \/ OtherNode
    \/ ClassParagraph
    \/ BeginParagraph
    \/ EndParagraph
    \/ SpanChild
    \/ BareSpanChild
    \/ TagChild
    \/ TextChild
    \/ Finalize

Spec == Init /\ [][Next]_vars

----------------------------------------------------------------------------
(* The walk over pages of speaker spans: every speaker text of up to MaxNameLen
   characters over a capital, the space and the period *)

NameChars == {"A", " ", "."}

Names == UNION { [1..n -> NameChars] : n \in 1..MaxNameLen }

\* the act heading at the top of the play
ActHeading ==
    LET ev == Ev("heading", "", <<"1", ".", " ", "A", "k", "t">>, <<>>)
    IN  /\ Running("page")
        /\ current_act = None
        /\ parse_heading(ev.text)
        /\ Visit(ev)
        /\ Bounded(ev)
        /\ UNCHANGED where

\* a span child of class "speaker"
SpeakerSpan ==
    \E text \in Names :
        /\ Running("para")
        /\ parse_span("speaker", text)
        /\ Visit(Ev("span", "speaker", text, <<>>))
        /\ Bounded(Ev("span", "speaker", text, <<>>))
        /\ UNCHANGED where

NextIds ==
    \/ StartPage
    \/ ActHeading
    \/ BeginParagraph
    \/ SpeakerSpan
    \/ EndParagraph
    \/ EndPage
    \/ Finalize

SpecIds == Init /\ [][NextIds]_vars

----------------------------------------------------------------------------
(* Reading the tree *)

Ids == 1..Len(elems)

Parent(t, n) ==
    IF \E m \in 1..Len(t) : \E k \in 1..Len(t[m].kids) : t[m].kids[k] = n
    THEN CHOOSE m \in 1..Len(t) : \E k \in 1..Len(t[m].kids) : t[m].kids[k] = n
    ELSE None

IsLastChild(t, parent, n) ==
    /\ parent \in 1..Len(t)
    /\ t[parent].kids # <<>>
    /\ t[parent].kids[Len(t[parent].kids)] = n

RECURSIVE PreOrder(_, _)
RECURSIVE PreOrderAll(_, _)
PreOrder(t, n) == <<n>> \o PreOrderAll(t, t[n].kids)
PreOrderAll(t, ns) ==
    IF ns = <<>> THEN <<>> ELSE PreOrder(t, Head(ns)) \o PreOrderAll(t, Tail(ns))

TypeOK ==
    /\ current_act \in 0..Len(elems)
    /\ current_scene \in 0..Len(elems)
    /\ current_speaker \in 0..Len(elems)
    /\ last_elem \in 0..Len(elems)
    /\ fault \in {"none", "TypeError", "AttributeError"}
    /\ where \in {"main", "page", "para", "done"}
    /\ Len(PreOrder(elems, Body)) = Len(elems)

----------------------------------------------------------------------------
(* Helpers of the properties *)

Tagged(tag) == {i \in Ids : elems[i].tag = tag}
Acts == {i \in Ids : elems[i].tag = "div" /\ elems[i].type = "act"}
Scenes == {i \in Ids : elems[i].tag = "div" /\ elems[i].type = "scene"}

DocOrder == PreOrder(elems, Body)

\* the position of every element in document order
Positions ==
    LET order == DocOrder
    IN  [n \in Ids |-> CHOOSE k \in 1..Len(order) : order[k] = n]

\* a and its descendants
Subtree(a) ==
    LET sub == PreOrder(elems, a) IN {sub[k] : k \in 1..Len(sub)}

\* n is a or a descendant of a
InSubtree(a, n) == n \in Subtree(a)

\* Elements are numbered as they are created, one builder call per visited node:
\* m < n says that the node that produced m was visited before the one that produced n.
VisitedBefore(m, n) == m < n

SpeakerVisit(ev) == ev.kind = "span" /\ ev.cls = "speaker"
DivisionStageVisit(ev) ==
    \/ ev.kind = "span" /\ ev.cls = "stage"
    \/ ev.kind = "p" /\ ev.cls = "stage"

----------------------------------------------------------------------------
(* C1 *)

\* C1: a new Speech and a new division-level StageDirection becomes the last child of
\* the open scene if there is one, else of the open act if there is one, else of Body,
\* and the insertion does not fail (in particular not when neither act nor scene is open).
C1_InsertAtInnermostOpen ==
    [][ (SpeakerVisit(lastEv') \/ DivisionStageVisit(lastEv')) =>
          LET target == IF current_scene # None THEN current_scene
                        ELSE IF current_act # None THEN current_act
                        ELSE Body
          IN  /\ fault' = "none"
              /\ Len(elems') > Len(elems)
              /\ elems'[Len(elems) + 1].tag \in {"sp", "stage"}
              /\ IsLastChild(elems', target, Len(elems) + 1) ]_vars

----------------------------------------------------------------------------
(* C2 *)

ScenarioDone == scen = Len(Script)

\* What the scenario's expected output says of act, Speech, TextParagraph, scene and Lines
ScenarioCommon(a, s, sc, lg) ==
    /\ Acts = {a} /\ elems[Body].kids = <<a>>
    /\ Tagged("sp") = {s} /\ Parent(elems, s) = a
    /\ elems[s].who = <<"#", "m", "a", "r", "i", "a">>
    /\ \E q \in Ids : /\ Tagged("p") = {q}
                      /\ Parent(elems, q) = s
                      /\ elems[q].text = Hallo
    /\ Scenes = {sc} /\ Parent(elems, sc) = a
    /\ Tagged("lg") = {lg}
    /\ Len(elems[lg].kids) = 2
    /\ \A k \in 1..2 : elems[elems[lg].kids[k]].tag = "l"
    /\ Cardinality(Tagged("l")) = 2

\* the scenario as the specification states it: the LineGroup lies in the scene Division
C2_ScenarioLinesInScene ==
    ScenarioDone =>
        \E a, s, sc, lg \in Ids :
            /\ ScenarioCommon(a, s, sc, lg)
            /\ InSubtree(sc, lg)

\* C2: after the scenario (act heading, speaker "MARIA.", text ". Hallo", next page,
\* scene heading, verse paragraph of two lines) Body holds one act; the act holds one
\* Speech (who "#maria") with one TextParagraph "Hallo", and one scene after it; the
\* LineGroup with the two Lines is the last child of that Speech, and the scene is empty.
C2_ScenarioLinesInSpeech ==
    ScenarioDone =>
        \E a, s, sc, lg \in Ids :
            /\ ScenarioCommon(a, s, sc, lg)
            /\ elems[a].kids = <<s, sc>>
            /\ IsLastChild(elems, s, lg)
            /\ elems[sc].kids = <<>>
            /\ elems[elems[lg].kids[1]].text = Hallo
            /\ elems[elems[lg].kids[2]].text = <<"W", "e", "l", "t">>
            /\ fault = "none"

C2_ScenarioRun == ScenarioDone /\ Tagged("lg") # {}

----------------------------------------------------------------------------
(* C3 *)

Structural == Acts \cup Scenes \cup Tagged("sp")

\* C3: acts, scenes and Speeches stand in document (pre-order) order in the order in
\* which their headings and speaker spans were visited, over all pages.
C3_StructureInVisitOrder ==
    LET pos == Positions
    IN  \A m, n \in Structural : VisitedBefore(m, n) => pos[m] < pos[n]

\* a second act follows a scene, and a Speech follows the second act
C3_SpeechAfterSecondAct ==
    \E a1, a2 \in Acts : \E sc \in Scenes : \E s \in Tagged("sp") :
        a1 < sc /\ sc < a2 /\ a2 < s

----------------------------------------------------------------------------
(* C4 *)

\* the ordering as stated for all content nodes
C4_AllNodesInVisitOrder ==
    LET pos == Positions
    IN  \A m, n \in Ids : VisitedBefore(m, n) => pos[m] < pos[n]

\* C4: document order equals visiting order except for what is appended to the active
\* Speech: a node n stands before an earlier node m exactly when n lies in a Speech
\* that was opened before m was produced and m lies outside that Speech (a LineGroup,
\* Line, TextParagraph or inside-speech StageDirection produced after an act or scene
\* heading with no speaker span in between stands before that Division).
C4_OrderUpToActiveSpeech ==
    [](
    LET pos == Positions
        within == [s \in Tagged("sp") |-> Subtree(s)]
    IN  \A m, n \in Ids :
            VisitedBefore(m, n) =>
                (pos[n] < pos[m] <=>
                    \E s \in Tagged("sp") : s < m /\ n \in within[s] /\ m \notin within[s]) )

\* a TextParagraph or LineGroup was produced after a Division that follows its Speech
C4_TextAfterHeading ==
    \E s \in Tagged("sp") : \E d \in Acts \cup Scenes : \E n \in Tagged("p") \cup Tagged("lg") :
        s < d /\ d < n /\ InSubtree(s, n)

----------------------------------------------------------------------------
(* C5 *)

\* the reference function: lowercase(strip_trailing_periods(s)) with spaces as underscores
ReferenceId(s) == replace(lower(rstrip(s, {"."})), " ", <<"_">>)

\* C5: the speaker reference that add_speaker computes from a display text is the
\* reference function of that text (behind the "#" of the reference), also for texts
\* that begin with a period.
C5_SpeakerIdIsReference ==
    (SpeakerVisit(lastEv) /\ fault = "none") =>
        elems[current_speaker].who = <<"#">> \o ReferenceId(lastEv.text)

----------------------------------------------------------------------------
(* C6 *)

Finalized == where = "done"

\* C6: after add_listPerson no two persons of the cast list have the same id.
C6_CastIdsUnique ==
    Finalized => \A i, j \in 1..Len(cast) : i # j => cast[i].id # cast[j].id

----------------------------------------------------------------------------
(* C7 *)

SpeakerNames == {elems[i].text : i \in Tagged("speaker")}

\* C7: after add_listPerson the cast list holds exactly one person per distinct
\* display name of the body, none for any other name, in ascending order of the
\* display names; without a Speech it stays empty.
C7_CastListIsSortedNames ==
    Finalized =>
        /\ {cast[i].persName : i \in 1..Len(cast)} = SpeakerNames
        /\ Len(cast) = Cardinality(SpeakerNames)
        /\ \A i, j \in 1..Len(cast) : i < j => StrLess(cast[i].persName, cast[j].persName)
        /\ (Tagged("sp") = {} => cast = <<>>)

\* two names were met in the order opposite to their order in the cast list
C7_TwoNamesReordered ==
    /\ Finalized
    /\ Len(cast) = 2
    /\ \E m, n \in Tagged("speaker") :
          m < n /\ elems[m].text = cast[2].persName /\ elems[n].text = cast[1].persName

----------------------------------------------------------------------------
(* C8 *)

OtherClassVisit(ev) == ev.kind = "p" /\ ev.cls \notin {"vers", "stage"}

\* C8: a paragraph whose class is neither "vers" nor "stage" changes nothing: tree,
\* open act, open scene, active Speech and last element stay, and no error is raised.
C8_OtherClassChangesNothing ==
    [][ OtherClassVisit(lastEv') =>
          /\ UNCHANGED <<elems, current_act, current_scene, current_speaker, last_elem>>
          /\ fault' = "none" ]_vars

\* such a paragraph was visited after the tree had begun to grow
C8_OtherClassVisited ==
    /\ OtherClassVisit(lastEv)
    /\ current_speaker # None
    /\ fault = "none"

----------------------------------------------------------------------------
(* C9 *)

VersVisit(ev) == ev.kind = "p" /\ ev.cls = "vers"

\* C9: a "vers" paragraph met while no Speech is active raises an error, and no
\* LineGroup or Line is added to the tree.
C9_VersWithoutSpeechFaults ==
    [][ (VersVisit(lastEv') /\ current_speaker = None) =>
          /\ fault' # "none"
          /\ elems' = elems ]_vars

\* a "vers" paragraph was met with an act open and no Speech active
C9_VersWithoutSpeechMet ==
    /\ VersVisit(lastEv)
    /\ current_speaker = None
    /\ current_act # None
    /\ fault = "TypeError"

----------------------------------------------------------------------------
(* C10 *)

\* case-sensitive containment of "Akt" and of "Szene", letter by letter
HasAkt(h) ==
    \E i \in 1..Len(h) :
        i + 2 <= Len(h) /\ h[i] = "A" /\ h[i + 1] = "k" /\ h[i + 2] = "t"
HasSzene(h) ==
    \E i \in 1..Len(h) :
        /\ i + 4 <= Len(h)
        /\ h[i] = "S" /\ h[i + 1] = "z" /\ h[i + 2] = "e" /\ h[i + 3] = "n" /\ h[i + 4] = "e"

\* the step appended exactly one division of the given type and nothing else
OneNewDivision(type) ==
    /\ Len(elems') = Len(elems) + 1
    /\ elems'[Len(elems')].tag = "div"
    /\ elems'[Len(elems')].type = type
    /\ elems'[Len(elems')].kids = <<>>
    /\ \E parent \in 1..Len(elems) :
          \A i \in 1..Len(elems) :
              elems'[i] = IF i = parent
                          THEN [elems[i] EXCEPT !.kids = Append(@, Len(elems) + 1)]
                          ELSE elems[i]
    /\ UNCHANGED <<current_speaker, cast, fault>>

\* C10: a heading that contains the act trigger opens exactly one act and no scene
\* (also when it contains the scene trigger), one that contains only the scene trigger
\* opens exactly one scene, any other heading changes nothing; the triggers match as
\* case-sensitive substrings.
C10_HeadingDispatch ==
    [][ lastEv'.kind = "heading" =>
          IF HasAkt(lastEv'.text)
          THEN /\ OneNewDivision("act")
               /\ current_act' = Len(elems')
               /\ current_scene' = None
               /\ IsLastChild(elems', Body, Len(elems'))
          ELSE IF HasSzene(lastEv'.text)
          THEN /\ OneNewDivision("scene")
               /\ current_scene' = Len(elems')
               /\ current_act' = current_act
          ELSE UNCHANGED conv ]_vars

\* a heading with both triggers was met while a scene was open
C10_BothTriggersMet ==
    /\ lastEv.kind = "heading"
    /\ HasAkt(lastEv.text) /\ HasSzene(lastEv.text)
    /\ Scenes # {}
    /\ current_scene = None

----------------------------------------------------------------------------
(* C11 *)

\* C11: every act Division is a child of Body, never of a scene or of another act, and
\* a scene opened before any act is a child of Body.
C11_ActsUnderBody ==
    /\ \A a \in Acts : Parent(elems, a) = Body
    /\ \A sc \in Scenes : (\A a \in Acts : sc < a) => Parent(elems, sc) = Body

\* a scene stands under Body, and an act was opened while that scene was open
C11_ActAfterBodyScene ==
    \E sc \in Scenes : \E a \in Acts :
        sc < a /\ Parent(elems, sc) = Body /\ Parent(elems, a) = Body

----------------------------------------------------------------------------
(* C12 *)

\* C12: the tree only grows by appending: a step keeps every element with its tag, its
\* parent and its place among its siblings, and every new element is appended behind
\* all children its parent had when it was created.
C12_AppendOnly ==
    [][ /\ Len(elems') >= Len(elems)
        /\ \A i \in 1..Len(elems) :
              /\ elems'[i].tag = elems[i].tag
              /\ elems'[i].type = elems[i].type
              /\ Len(elems'[i].kids) >= Len(elems[i].kids)
              /\ SubSeq(elems'[i].kids, 1, Len(elems[i].kids)) = elems[i].kids
        /\ \A n \in (Len(elems) + 1)..Len(elems') :
              /\ Cardinality({q \in 1..Len(elems') :
                               \E k \in 1..Len(elems'[q].kids) : elems'[q].kids[k] = n}) = 1
              /\ \A q \in 1..Len(elems') : \A k \in 1..Len(elems'[q].kids) :
                    elems'[q].kids[k] = n =>
                        /\ q < n
                        /\ q <= Len(elems) => k > Len(elems[q].kids)
                        /\ \A j \in 1..Len(elems'[q].kids) :
                              (j < k <=> elems'[q].kids[j] < n) ]_vars

\* a Speech has got three children one after the other
C12_SpeechWithThreeChildren ==
    \E s \in Tagged("sp") : Len(elems[s].kids) >= 3

----------------------------------------------------------------------------
(* C13 *)

TextVisit(ev) == ev.kind = "text"

HasPrefix(text) ==
    /\ Len(text) >= 2
    /\ text[1] \in {",", ".", ":"}
    /\ text[2] = " "

\* what is left of a text run: prefix dropped, newlines removed, trimmed
Remainder(text) ==
    strip(replace(IF HasPrefix(text) THEN SubSeq(text, 3, Len(text)) ELSE text, "\n", <<>>),
          Whitespace)

LastIsStage == last_elem # None /\ elems[last_elem].tag = "stage"

\* the handler has nothing to add: no Speech is active, or nothing is left of the text
NothingToAdd(text) == current_speaker = None \/ Remainder(text) = <<>>

----------------------------------------------------------------------------
(* C14 *)

\* the step created one TextParagraph with the given text as last child of the Speech
NewParagraph(text) ==
    /\ Len(elems') = Len(elems) + 1
    /\ elems'[Len(elems')].tag = "p"
    /\ elems'[Len(elems')].text = text
    /\ IsLastChild(elems', current_speaker, Len(elems'))

ParagraphIffLong(text) ==
    IF current_speaker # None /\ Len(Remainder(text)) > 1
    THEN NewParagraph(Remainder(text))
    ELSE Len(elems') = Len(elems)

\* the statement as made: the StageDirection gets exactly the first character
C14_StageGetsOneCharacter ==
    [][ (TextVisit(lastEv') /\ HasPrefix(lastEv'.text) /\ LastIsStage) =>
          /\ elems'[last_elem].text = Append(elems[last_elem].text, lastEv'.text[1])
          /\ ParagraphIffLong(lastEv'.text)
      ]_vars

\* C14: when the last element is a StageDirection and a text run begins with ", ", ". "
\* or ": ", the StageDirection's text gets the first character of the run, and after it
\* the trimmed rest of the run when a Speech is active and that rest is exactly one
\* character long; a TextParagraph with the trimmed rest (the run without its first two
\* characters) is created under the active Speech iff a Speech is active and the rest is
\* longer than one character.
C14_StageGetsPrefixAndSingle ==
    [][ (TextVisit(lastEv') /\ HasPrefix(lastEv'.text) /\ LastIsStage) =>
          /\ elems'[last_elem].text =
                Append(elems[last_elem].text, lastEv'.text[1])
                \o (IF current_speaker # None /\ Len(Remainder(lastEv'.text)) = 1
                    THEN Remainder(lastEv'.text) ELSE <<>>)
          /\ ParagraphIffLong(lastEv'.text)
          /\ fault' = "none"
      ]_vars

\* a StageDirection has got the period and the single letter of the run ". a"
C14_StageGotTwoCharacters ==
    /\ TextVisit(lastEv) /\ lastEv.text = <<".", " ", "a">>
    /\ current_speaker # None
    /\ LastIsStage
    /\ elems[last_elem].text = <<"a", ".", "a">>

----------------------------------------------------------------------------
(* C15 *)

\* the text of the Line made of a text child
LineOf(text) ==
    LET cut == IF Len(text) >= 2 /\ text[1] \in {",", "."} /\ text[2] = " "
               THEN SubSeq(text, 3, Len(text))
               ELSE text
    IN  strip(replace(cut, "\n", <<>>), Whitespace)

\* C15: a "vers" paragraph met while a Speech is active appends one LineGroup as last
\* child of that Speech, with one Line per text child of the paragraph (none for a tag
\* child) in the same order, each with the child's text without a leading ", " or ". ",
\* without newlines, trimmed (<<"Hallo", ", Welt">> gives <<"Hallo", "Welt">>); the
\* LineGroup becomes the last element, and no other element changes.
C15_VersAppendsLineGroup ==
    [][ (VersVisit(lastEv') /\ current_speaker # None) =>
          LET texts == SelectSeq(lastEv'.lines, LAMBDA c : ~c.isTag)
              lg == Len(elems) + 1
          IN  /\ Len(elems') = lg + Len(texts)
              /\ elems'[lg].tag = "lg"
              /\ IsLastChild(elems', current_speaker, lg)
              /\ elems'[lg].kids = [k \in 1..Len(texts) |-> lg + k]
              /\ \A k \in 1..Len(texts) :
                    /\ elems'[lg + k].tag = "l"
                    /\ elems'[lg + k].kids = <<>>
                    /\ elems'[lg + k].text = LineOf(texts[k].text)
              /\ lastEv'.lines = << TextNode(Hallo), TextNode(<<",", " ", "W", "e", "l", "t">>) >>
                    => /\ elems'[lg + 1].text = <<"H", "a", "l", "l", "o">>
                       /\ elems'[lg + 2].text = <<"W", "e", "l", "t">>
              /\ last_elem' = lg
              /\ \A i \in 1..Len(elems) :
                    elems'[i] = IF i = current_speaker
                                THEN [elems[i] EXCEPT !.kids = Append(@, lg)]
                                ELSE elems[i]
              /\ UNCHANGED <<current_act, current_scene, current_speaker, fault>> ]_vars

\* a "vers" paragraph with a tag child gave a LineGroup of a single Line
C15_VersWithTagChild ==
    /\ VersVisit(lastEv)
    /\ \E k \in 1..Len(lastEv.lines) : lastEv.lines[k].isTag
    /\ last_elem # None /\ elems[last_elem].tag = "lg"
    /\ Len(elems[last_elem].kids) = 1
    /\ fault = "none"

----------------------------------------------------------------------------
(* C16 *)

\* a tag child that is not a span of class "stage", "speaker" or "regie"
IgnoredTagVisit(ev) ==
    \/ ev.kind = "tag"
    \/ ev.kind = "span" /\ ev.cls \notin {"stage", "speaker", "regie"}

\* C16: such a child of a paragraph without class is ignored: no error, no change of
\* tree or converter state, and the walk goes on with the next child.
C16_OtherTagsIgnored ==
    [][ IgnoredTagVisit(lastEv') =>
          /\ UNCHANGED <<elems, current_act, current_scene, current_speaker, last_elem, fault>>
          /\ fault' = "none"
          /\ where' = "para" ]_vars

----------------------------------------------------------------------------
(* C17 *)

Divisions == Acts \cup Scenes

\* the latest element of S made before n, None if there is none
LatestBefore(S, n) ==
    IF {d \in S : d < n} = {} THEN None
    ELSE CHOOSE d \in S : d < n /\ \A e \in S : e < n => e <= d

\* Speeches and the StageDirections that are not inside a Speech
DivisionLevel ==
    Tagged("sp") \cup {i \in Tagged("stage") : elems[Parent(elems, i)].tag # "sp"}

\* C17: an act is made as last child of Body and closes the open scene, so that a
\* Speech or division-level StageDirection made after an act heading and before the
\* next scene heading is a child of that act; a scene is made under the act that is
\* open, if an act was ever opened, else under Body.
C17_ActResetsScene ==
    [](
    /\ \A a \in Acts : Parent(elems, a) = Body
    /\ Acts # {} => IsLastChild(elems, Body, LatestBefore(Acts, Len(elems) + 1))
    /\ current_scene # None => current_scene > current_act
    /\ \A n \in DivisionLevel :
          LatestBefore(Divisions, n) \in Acts => Parent(elems, n) = LatestBefore(Divisions, n)
    /\ \A sc \in Scenes :
          Parent(elems, sc) = IF LatestBefore(Acts, sc) = None THEN Body
                              ELSE LatestBefore(Acts, sc) )

\* a StageDirection was made behind a second act that followed a scene
C17_StageAfterSecondAct ==
    \E a1, a2 \in Acts : \E sc \in Scenes : \E st \in Tagged("stage") :
        a1 < sc /\ sc < a2 /\ a2 < st /\ Parent(elems, st) = a2

----------------------------------------------------------------------------
(* C18 *)

\* C18: the text of an element changes after its creation only if the element is a
\* StageDirection, the step is the speaker-text handler's, and the StageDirection is
\* still the last element made (no element was made after it); the last element is
\* tracked for the whole document, so also a StageDirection outside every Speech gets
\* characters of a following text run.
C18_OnlyLastStageChanges ==
    [][ \A i \in 1..Len(elems) :
          elems'[i].text # elems[i].text =>
              /\ elems[i].tag = "stage"
              /\ TextVisit(lastEv')
              /\ last_elem = i
              /\ i = Len(elems) ]_vars

\* a division-level StageDirection got a character while the body held no Speech
C18_DivisionStageChanged ==
    \E st \in Tagged("stage") :
        /\ Tagged("sp") = {}
        /\ elems[Parent(elems, st)].tag = "div"
        /\ Len(elems[st].text) > 1

----------------------------------------------------------------------------
(* C19 *)

\* the display name of a Speech: the text of its speaker child
DisplayName(sp) == elems[elems[sp].kids[1]].text

\* C19: after add_listPerson every Speech of the body refers to a person of the cast
\* list: there is a person with the display name of the Speech, and the who of the
\* Speech without its "#" is the id of every such person; for the speaker text just
\* met, the id computed from the raw text and the id computed from the stored display
\* name agree.
C19_WhoRefersToCastEntry ==
    /\ Finalized =>
          \A sp \in Tagged("sp") :
              /\ \E i \in 1..Len(cast) : cast[i].persName = DisplayName(sp)
              /\ \A i \in 1..Len(cast) :
                    cast[i].persName = DisplayName(sp) => elems[sp].who = <<"#">> \o cast[i].id
    /\ (SpeakerVisit(lastEv) /\ fault = "none") =>
          /\ DisplayName(current_speaker) = strip(lastEv.text, {"."})
          /\ elems[current_speaker].who = <<"#">> \o person_id(DisplayName(current_speaker))

\* the cast list was made for two Speeches whose references differ from their display
\* names, one of them by more than the case of its letters
C19_TwoNormalizedNames ==
    /\ Finalized
    /\ Len(cast) = 2
    /\ \A sp \in Tagged("sp") : elems[sp].who # <<"#">> \o DisplayName(sp)
    /\ \E sp \in Tagged("sp") : elems[sp].who # <<"#">> \o lower(DisplayName(sp))

----------------------------------------------------------------------------
(* C20 *)

RegieVisit(ev) == ev.kind = "span" /\ ev.cls = "regie"

\* the element a builder needs is missing
TargetAbsent(ev) ==
    \/ (SpeakerVisit(ev) \/ DivisionStageVisit(ev)) /\ current_act = None /\ current_scene = None
    \/ (RegieVisit(ev) \/ VersVisit(ev)) /\ current_speaker = None
    \/ TextVisit(ev) /\ last_elem = None

\* C20: a builder (add_speaker, add_stage at division level or inside a Speech,
\* add_lines, add_speakerText) that fails does so for its missing target and before
\* it changes anything: the tree, the open act and scene, the active Speech and the
\* last element are as before the call.
C20_FaultBeforeMutation ==
    [][ ( /\ \/ SpeakerVisit(lastEv') \/ DivisionStageVisit(lastEv') \/ RegieVisit(lastEv')
             \/ VersVisit(lastEv') \/ TextVisit(lastEv')
          /\ fault' # "none" ) =>
            /\ TargetAbsent(lastEv')
            /\ UNCHANGED <<elems, current_act, current_scene, current_speaker, last_elem>> ]_vars

\* a stage direction for a Speech failed in a body that already holds elements
C20_RegieFailedInFilledBody ==
    /\ fault = "TypeError"
    /\ RegieVisit(lastEv)
    /\ Len(elems) > 2
    /\ last_elem # None

====
